---- MODULE Spec2Model ----
(***************************************************************************)
(* zotero-info-update: one run of main.py against a Zotero SQLite file.    *)
(*                                                                         *)
(* The database is the three tables the program reads and writes:          *)
(*   items(itemID, dateAdded, clientDateModified)   itemID is the key      *)
(*   itemData(itemID, valueID)                                             *)
(*   itemDataValues(valueID, value)                                        *)
(* A run is main.py's try/except/finally block; each call it makes is one  *)
(* action.  Text is a tuple of one-character strings, so that LIKE is      *)
(* computed character by character as SQLite computes it.                  *)
(***************************************************************************)
EXTENDS Integers, Sequences, FiniteSets, TLC

\* ---------------------------------------------------------------- bounds
MaxItemID == 1
MaxValueID == 1
MaxLinks == 2
MaxRuns == 2

ItemIDs == 0..MaxItemID
ValueIDs == 1..MaxValueID

\* ------------------------------------------------------------ input sets
NEW_DATE_ADDED == "2024-11-30 09:57:32"
OldDate == "2023-01-01 00:00:00"
ClientDate == "2023-01-02 00:00:00"
Dates == {NEW_DATE_ADDED, OldDate}

\* Python's None for a configured title (a one-element tuple no text equals).
None == <<"None">>

\* Values stored in itemDataValues, and titles the configuration may hold.
Values == { <<"A", "b">>, <<"b", "a">> }
Titles == { None, <<>>, <<"a">>, <<"a", "B">>, <<"_", "a">>, <<"b", "b">> }

\* Exceptions a run can see.
NoExc == "none"
InvalidInput == "ValueError: Title name cannot be None or empty."
NotFound == "ValueError: No matching item found"
DatabaseError == "sqlite3.DatabaseError"
ConnectError == "sqlite3.OperationalError (connect)"
NameError == "NameError: name 'conn' is not defined"

\* ----------------------------------------------------------------- state
VARIABLES
    items,            \* itemID -> [dateAdded, clientDateModified]
    itemData,         \* set of <<itemID, valueID>>
    itemDataValues,   \* valueID -> value text
    config,           \* config.py's dictionary
    self,             \* the ZoteroInfoUpdate object's fields ({} before __init__)
    pc,               \* main.py's position
    conn,             \* main.py's conn: "unbound", "open", "closed"
    itemId,           \* main.py's itemId: {} unbound, {i} bound
    exc,              \* the exception propagating out of the try block
    exitCode,         \* {} while running, {0} or {1} once exited
    steps,            \* the calls main.py made in this run, with their outcome
    nQueries,         \* SELECT statements executed in this run
    nUpdates,         \* UPDATE statements executed in this run
    nCommits,         \* commits attempted in this run
    resolved,         \* update_date_added's item_id: {} or {i}
    rowcount,         \* rows the UPDATE matched: {} or {n}
    written,          \* item whose dateAdded this run committed: {} or {i}
    cleanupDone,      \* the finally block ran to its end
    dbStart,          \* the database when this run started
    okRuns,           \* runs so far whose update_date_added returned normally
    run               \* number of this run

db == [items |-> items, itemData |-> itemData, itemDataValues |-> itemDataValues]

vars == <<items, itemData, itemDataValues, config, self, pc, conn, itemId, exc,
          exitCode, steps, nQueries, nUpdates, nCommits, resolved, rowcount,
          written, cleanupDone, dbStart, okRuns, run>>

dbVars == <<items, itemData, itemDataValues>>

\* ------------------------------------------------------------- SQL: LIKE
\* SQLite folds case for ASCII letters only.
Lower(c) == IF c = "A" THEN "a" ELSE IF c = "B" THEN "b" ELSE c

\* value LIKE pattern: % is any run of characters, _ any one character.
RECURSIVE Like(_, _)
Like(p, s) ==
    IF p = <<>> THEN s = <<>>
    ELSE IF Head(p) = "%"
         THEN Like(Tail(p), s) \/ (s # <<>> /\ Like(p, Tail(s)))
         ELSE /\ s # <<>>
              /\ (Head(p) = "_" \/ Lower(Head(p)) = Lower(Head(s)))
              /\ Like(Tail(p), Tail(s))

\* "%" + self.title_name + "%"
Pattern(title) == <<"%">> \o title \o <<"%">>

\* The SELECT's result set: one row per itemData link whose value and item
\* both exist and whose value matches.  A row is <<itemID, valueID>>; the
\* other selected columns are functions of these two.
QueryRows(title, tItems, tData, tValues) ==
    { r \in tData :
        /\ r[2] \in DOMAIN tValues
        /\ r[1] \in DOMAIN tItems
        /\ Like(Pattern(title), tValues[r[2]]) }

\* ---------------------------------------------------------- get_item_id
\* `not self.title_name`
\* (faulty variant: tests only `is None`)
Falsy_OnlyNone(title) == title = None
Falsy(title) == title = None \/ title = <<>>

\* results[0][0]
\* (faulty variant: results[0][1], the valueID column)
FirstColumn_ValueID(row) == row[2]
FirstColumn(row) == row[1]

\* `not item_id`
ItemIdFalsy(id) == id = 0

\* The outcomes of get_item_id(conn): the exception raised (NoExc if it
\* returned), the identifier returned, and the number of queries executed.
\* No ORDER BY: any row of the result set may come first.
\* (faulty variant: no `if not results` test, so results[0] raises IndexError)
GetItemId_NoResultsCheck(title, tItems, tData, tValues) ==
    IF Falsy(title)
    THEN { [exc |-> InvalidInput, id |-> {}, queries |-> 0] }
    ELSE LET rows == QueryRows(title, tItems, tData, tValues) IN
         { [exc |-> DatabaseError, id |-> {}, queries |-> 1] }
         \cup (IF rows = {}
               THEN { [exc |-> "IndexError", id |-> {}, queries |-> 1] }
               ELSE { [exc |-> NoExc, id |-> {FirstColumn(r)}, queries |-> 1] :
                      r \in rows })
GetItemId(title, tItems, tData, tValues) ==
    IF Falsy(title)
    THEN { [exc |-> InvalidInput, id |-> {}, queries |-> 0] }
    ELSE LET rows == QueryRows(title, tItems, tData, tValues) IN
         { [exc |-> DatabaseError, id |-> {}, queries |-> 1] }
         \cup (IF rows = {}
               THEN { [exc |-> NotFound, id |-> {}, queries |-> 1] }
               ELSE { [exc |-> NoExc, id |-> {FirstColumn(r)}, queries |-> 1] :
                      r \in rows })

\* ------------------------------------------------------------ SQL: UPDATE
\* UPDATE items SET dateAdded = ? WHERE itemID = ?
\* (faulty variants: no WHERE clause; the wrong column)
SqlUpdate_NoWhere(tItems, d, id) ==
    [i \in DOMAIN tItems |-> [tItems[i] EXCEPT !.dateAdded = d]]
SqlUpdate_WrongColumn(tItems, d, id) ==
    [i \in DOMAIN tItems |->
        IF i = id THEN [tItems[i] EXCEPT !.clientDateModified = d] ELSE tItems[i]]
SqlUpdate(tItems, d, id) ==
    [i \in DOMAIN tItems |->
        IF i = id THEN [tItems[i] EXCEPT !.dateAdded = d] ELSE tItems[i]]

\* cursor.rowcount of that UPDATE
RowCount(tItems, id) == Cardinality({i \in DOMAIN tItems : i = id})

\* The process's exit status for the exception that left the try statement.
\* (faulty variant: the except clause does not re-raise)
ExitCode_Swallow(e) == 0
ExitCode(e) == IF e = NoExc THEN 0 ELSE 1

\* ------------------------------------------------------------------ Init
Links == { L \in SUBSET (ItemIDs \X ValueIDs) : Cardinality(L) <= MaxLinks }

Init ==
    /\ \E S \in SUBSET ItemIDs :
         items \in [S -> [dateAdded : Dates, clientDateModified : {ClientDate}]]
    /\ itemData \in Links
    /\ itemDataValues \in [ValueIDs -> Values]
    /\ config \in [new_date_added : {NEW_DATE_ADDED}, title_name : Titles]
    /\ self = {}
    /\ pc = "start"
    /\ conn = "unbound"
    /\ itemId = {}
    /\ exc = NoExc
    /\ exitCode = {}
    /\ steps = <<>>
    /\ nQueries = 0
    /\ nUpdates = 0
    /\ nCommits = 0
    /\ resolved = {}
    /\ rowcount = {}
    /\ written = {}
    /\ cleanupDone = FALSE
    /\ dbStart = db
    /\ okRuns = 0
    /\ run = 1

Step(op, ok) == [op |-> op, ok |-> ok]
TheSelf == CHOOSE s \in self : TRUE

\* --------------------------------------------------------------- actions
\* main.py:44  ZoteroInfoUpdate(config)
Construct ==
    /\ pc = "start"
    /\ self' = { [new_date_added |-> config.new_date_added,
                  title_name |-> config.title_name] }
    /\ steps' = Append(steps, Step("configure", TRUE))
    /\ pc' = "connect"
    /\ UNCHANGED <<dbVars, config, conn, itemId, exc, exitCode, nQueries,
                   nUpdates, nCommits, resolved, rowcount, written,
                   cleanupDone, dbStart, okRuns, run>>

\* main.py:47  conn = zotero_update_date_added.connect_to_db()
ConnectToDb ==
    /\ pc = "connect"
    /\ \E ok \in BOOLEAN :
         /\ steps' = Append(steps, Step("connect", ok))
         /\ IF ok
            THEN conn' = "open" /\ exc' = exc /\ pc' = "resolve"
            ELSE conn' = conn /\ exc' = ConnectError /\ pc' = "finally"
    /\ UNCHANGED <<dbVars, config, self, itemId, exitCode, nQueries, nUpdates,
                   nCommits, resolved, rowcount, written, cleanupDone, dbStart,
                   okRuns, run>>

\* main.py:54  itemId = zotero_update_date_added.get_item_id(conn)
MainGetItemId ==
    /\ pc = "resolve"
    /\ \E o \in GetItemId(TheSelf.title_name, items, itemData, itemDataValues) :
         /\ nQueries' = nQueries + o.queries
         /\ steps' = Append(steps, Step("resolve", o.exc = NoExc))
         /\ IF o.exc = NoExc
            THEN itemId' = o.id /\ exc' = exc /\ pc' = "update"
            ELSE itemId' = itemId /\ exc' = o.exc /\ pc' = "finally"
    /\ UNCHANGED <<dbVars, config, self, conn, exitCode, nUpdates, nCommits,
                   resolved, rowcount, written, cleanupDone, dbStart, okRuns, run>>

\* main.py:61  zotero_update_date_added.update_date_added(conn)
\* gone: the items rows another process deleted between this call's SELECT
\* and its UPDATE (empty when nothing else writes the file).
UpdateDateAdded(gone) ==
    /\ pc = "update"
    /\ pc' = "finally"
    /\ \E o \in GetItemId(TheSelf.title_name, items, itemData, itemDataValues) :
         /\ nQueries' = nQueries + o.queries
         /\ resolved' = o.id
         /\ IF o.exc # NoExc
            THEN \* line 212 raised: nothing else runs
                 /\ exc' = o.exc
                 /\ steps' = Append(steps, Step("update", FALSE))
                 /\ UNCHANGED <<items, nUpdates, nCommits, rowcount, written, okRuns>>
            ELSE LET item_id == CHOOSE i \in o.id : TRUE
                     left == [i \in (DOMAIN items) \ gone |-> items[i]]
                 IN \E executeOk \in BOOLEAN, commitOk \in BOOLEAN :
                    \* `if not item_id` only logs; lines 218-225 follow
                    IF ~executeOk
                    THEN /\ exc' = DatabaseError
                         /\ steps' = Append(steps, Step("update", FALSE))
                         /\ items' = left
                         /\ nUpdates' = nUpdates + 1
                         /\ UNCHANGED <<nCommits, rowcount, written, okRuns>>
                    ELSE /\ nUpdates' = nUpdates + 1
                         /\ nCommits' = nCommits + 1
                         /\ rowcount' = {RowCount(left, item_id)}
                         /\ IF commitOk
                            THEN /\ items' = SqlUpdate(left, TheSelf.new_date_added, item_id)
                                 /\ written' = {item_id}
                                 /\ exc' = exc
                                 /\ okRuns' = okRuns + 1
                                 /\ steps' = Append(steps, Step("update", TRUE))
                            ELSE /\ items' = left
                                 /\ written' = written
                                 /\ exc' = DatabaseError
                                 /\ okRuns' = okRuns
                                 /\ steps' = Append(steps, Step("update", FALSE))
    /\ UNCHANGED <<itemData, itemDataValues, config, self, conn, itemId,
                   exitCode, cleanupDone, dbStart, run>>

\* main.py:64-71  except: log and re-raise; finally: if conn: conn.close()
Finally ==
    /\ pc = "finally"
    /\ pc' = "exited"
    /\ IF conn = "unbound"
       THEN \* `if conn:` reads a name that was never bound
            /\ exc' = NameError
            /\ conn' = conn
            /\ cleanupDone' = FALSE
            /\ steps' = steps
       ELSE /\ exc' = exc
            /\ conn' = "closed"
            /\ cleanupDone' = TRUE
            /\ steps' = Append(steps, Step("close", TRUE))
    /\ exitCode' = {ExitCode(exc')}
    /\ UNCHANGED <<dbVars, config, self, itemId, nQueries, nUpdates, nCommits,
                   resolved, rowcount, written, dbStart, okRuns, run>>

\* python main.py, once more, on the database the last run left
NewRun ==
    /\ pc = "exited"
    /\ run < MaxRuns
    /\ run' = run + 1
    /\ pc' = "start"
    /\ self' = {}
    /\ conn' = "unbound"
    /\ itemId' = {}
    /\ exc' = NoExc
    /\ exitCode' = {}
    /\ steps' = <<>>
    /\ nQueries' = 0
    /\ nUpdates' = 0
    /\ nCommits' = 0
    /\ resolved' = {}
    /\ rowcount' = {}
    /\ written' = {}
    /\ cleanupDone' = FALSE
    /\ dbStart' = db
    /\ UNCHANGED <<dbVars, config, okRuns>>

Next ==
    \/ Construct
    \/ ConnectToDb
    \/ MainGetItemId
    \/ UpdateDateAdded({})
    \/ Finally
    \/ NewRun

Spec == Init /\ [][Next]_vars

\* The same program while another process also writes the database file.
UpdateDateAddedConcurrent ==
    \E gone \in (SUBSET DOMAIN items) \ {{}} : UpdateDateAdded(gone)

NextEnv ==
    \/ Next
    \/ UpdateDateAddedConcurrent

SpecEnv == Init /\ [][NextEnv]_vars

\* ---------------------------------------------------------------- claims
Ops == [k \in 1..Len(steps) |-> steps[k].op]
Called(op) == \E k \in 1..Len(steps) : steps[k].op = op
Ok(op) == \E k \in 1..Len(steps) : steps[k] = Step(op, TRUE)

\* The items whose data values the configured title matches.
MatchingRows == QueryRows(config.title_name, items, itemData, itemDataValues)
MatchingItems == { r[1] : r \in MatchingRows }

\* The configured title is None or the empty string.
TitleEmpty == config.title_name = None \/ config.title_name = <<>>

\* update_date_added returns normally in this step.
UpdateReturns == pc = "update" /\ pc' = "finally" /\ exc' = NoExc
ReadBack == \A i \in written' : items'[i].dateAdded = config.new_date_added

\* C1 (as stated): after update_date_added succeeds, the written item's
\* dateAdded reads back as the new date, and a further successful run with
\* the same title and date leaves the database unchanged, whatever the
\* number of items the title matches.
C1_Original ==
    [][UpdateReturns => (ReadBack /\ (okRuns >= 1 => dbVars' = dbVars))]_vars

\* C1 (amended): the read-back holds always; the repeated run leaves the
\* database unchanged when the title matches exactly one item.
C1_IdempotentWhenUnique ==
    [][UpdateReturns =>
        (ReadBack /\ ((okRuns >= 1 /\ Cardinality(MatchingItems) = 1)
                        => dbVars' = dbVars))]_vars

C1_Witness ==
    /\ okRuns = 2
    /\ Cardinality(MatchingItems) = 1
    /\ Cardinality(DOMAIN items) >= 2
    /\ \A i \in written : items[i].dateAdded = config.new_date_added
    /\ db = dbStart

\* C2: a non-empty title that matches the data values of exactly one item
\* makes get_item_id return that item's itemID.
C2_ResolveUnique ==
    (itemId # {} /\ ~TitleEmpty /\ Cardinality(MatchingItems) = 1)
        => itemId = MatchingItems

C2_Witness ==
    /\ pc = "update"
    /\ itemId # {}
    /\ Cardinality(MatchingItems) = 1
    /\ Cardinality(DOMAIN items) >= 2

\* C3 (as stated): when a run has ended, on every path, the finally block
\* has completed and no connection is left open.
C3_Original == pc = "exited" => (cleanupDone /\ conn # "open")

\* C4: a run changes at most the dateAdded of one items row; nothing else
\* changes, no row appears or disappears, and nothing changes before
\* update_date_added is called.
C4_Frame ==
    /\ itemData = dbStart.itemData
    /\ itemDataValues = dbStart.itemDataValues
    /\ DOMAIN items = DOMAIN dbStart.items
    /\ Cardinality({i \in DOMAIN items : items[i] # dbStart.items[i]}) <= 1
    /\ \A i \in DOMAIN items :
         items[i].clientDateModified = dbStart.items[i].clientDateModified
    /\ (pc \in {"start", "connect", "resolve", "update"} => db = dbStart)

C4_Witness ==
    /\ Cardinality(DOMAIN items) >= 2
    /\ \E i \in DOMAIN items : items[i].dateAdded # dbStart.items[i].dateAdded
    /\ \E i \in DOMAIN items : items[i].dateAdded # config.new_date_added

\* C5 (as stated): whenever the title matches no data value of any item and
\* the query itself does not fail, get_item_id raises the not-found error.
C5_Original ==
    (Called("resolve") /\ exc # DatabaseError /\ MatchingRows = {})
        => exc = NotFound

\* C5 (amended): the same for every non-empty title.
C5_NotFoundNonEmpty ==
    (Called("resolve") /\ exc # DatabaseError /\ ~TitleEmpty
        /\ MatchingRows = {})
        => (exc = NotFound /\ itemId = {})

C5_Witness ==
    /\ Called("resolve")
    /\ ~TitleEmpty
    /\ MatchingRows = {}
    /\ itemData # {}
    /\ exc = NotFound

\* C6: with an empty or None title, get_item_id raises the invalid-input
\* error and no query has been executed.
C6_EmptyTitle ==
    (Called("resolve") /\ TitleEmpty)
        => (exc = InvalidInput /\ nQueries = 0 /\ itemId = {})

C6_Witness ==
    /\ Called("resolve")
    /\ config.title_name = <<>>
    /\ MatchingRows # {}
    /\ exc = InvalidInput

\* C7 (as stated): an UPDATE or a commit is issued only after a resolution
\* that returned an identifier which is not falsy.
C7_Original ==
    (nUpdates > 0 \/ nCommits > 0)
        => (resolved # {} /\ \A i \in resolved : ~ItemIdFalsy(i))

\* C8: the exit code is 0 exactly when connect, resolve and update all
\* succeeded; a failed step propagates, is followed by nothing but close,
\* and no step is made twice.
C8_ExitCode ==
    /\ pc = "exited" =>
         /\ exitCode = {0} <=> (Ok("connect") /\ Ok("resolve") /\ Ok("update"))
         /\ exitCode # {0} => exc # NoExc
    /\ \A k \in 1..Len(steps) :
         ~steps[k].ok => \A j \in (k + 1)..Len(steps) : steps[j].op = "close"
    /\ \A j, k \in 1..Len(steps) : j # k => steps[j].op # steps[k].op

C8_Witness ==
    /\ pc = "exited"
    /\ exitCode = {1}
    /\ Ok("resolve")
    /\ Called("update")
    /\ Called("close")

\* C9 (as stated): update_date_added does not return normally when its
\* UPDATE matched no row.
C9_Original == Ok("update") => \A n \in rowcount : n >= 1

\* C10 (as stated): a successful run is configure, connect, resolve, update,
\* close, with one lookup query, and the row written is the one main.py's
\* resolve step returned.
C10_Original ==
    (pc = "exited" /\ exitCode = {0}) =>
        /\ Ops = <<"configure", "connect", "resolve", "update", "close">>
        /\ nQueries = 1
        /\ written = itemId

====
